---- MODULE Spec2Model ----
(***************************************************************************)
(* Model of the provisioning client CobblerAction (src/cobbler.py): the    *)
(* remote catalog it reads and mutates, and its workflows executed one     *)
(* RPC at a time by a single synchronous caller.                           *)
(* The class is modelled as loaded: the names List and Tuple in the        *)
(* annotation of set_system_args (line 91) are taken as resolved.          *)
(***************************************************************************)
EXTENDS Integers, Sequences, FiniteSets, TLC

VARIABLES
    systems,    \* committed System records of the remote service, in get_systems() order
    profiles,   \* Profile records, in get_profiles() order
    distros,    \* Distro records, in get_distros() order
    token,      \* self.token
    pc,         \* position of the caller inside the running method
    op,         \* name of the running method ("" when none)
    arg,        \* arguments of the running method
    i,          \* loop / step index of the running method
    handle,     \* <<>> or <<h>>: the handle held in the method's local variable
    names,      \* purge_systems: the list returned by system_names()
    value,      \* local value computed by the method (system_def, arg_str, ifaces)
    exc,        \* "" or the type of the exception raised by the current step
    result,     \* <<>> or <<r>>: what the method handed back to its caller
    log,        \* RPCs issued by the running method, in order
    nhandles,   \* number of handles the remote service has issued
    nops,       \* number of methods invoked so far
    before,     \* the committed System records when the running method was invoked
    prev        \* <<>> or <<[op, val]>>: the list read that returned last, if no other
                \* method has returned since

vars == <<systems, profiles, distros, token, pc, op, arg, i, handle, names,
          value, exc, result, log, nhandles, nops, before, prev>>

----------------------------------------------------------------------------
(* Bounds *)

MaxOps == 2
MaxSystems == 2
MaxProfiles == 2

----------------------------------------------------------------------------
(* Values *)

None == [none |-> TRUE]

NoIfaces == [p \in {} |-> [mac_address |-> ""]]

BlankSystem ==
    [name |-> "", hostname |-> "", profile |-> "", interfaces |-> NoIfaces,
     power_address |-> "", power_user |-> "", power_pass |-> "",
     power_mode |-> "", netboot_enabled |-> FALSE,
     kernel_options |-> "", kernel_options_post |-> ""]

HostNames == {"h1", "h2", "h3"}
ProfileNames == {"p1", "p2", "p3"}
Archs == {"x86_64", "aarch64"}
RequestArchs == Archs \cup {"riscv64"}

Distros == <<[name |-> "x86", arch |-> "x86_64"], [name |-> "arm", arch |-> "aarch64"]>>

Range(s) == {s[k] : k \in 1..Len(s)}

DistinctNames(coll) == \A a, b \in 1..Len(coll) : coll[a].name = coll[b].name => a = b

SeqsUpTo(S, n) == UNION {[1..k -> S] : k \in 0..n}

----------------------------------------------------------------------------
(* Outcome of a local computation: a value, or the type of the exception raised *)

Ok(v) == [exc |-> "", val |-> v]

Raise(e) == [exc |-> e, val |-> None]

Exceptions == {"JSONDecodeError", "KeyError", "TypeError", "Fault"}

----------------------------------------------------------------------------
(* Catalog Reader: cobbler.py lines 27-75 *)

RECURSIVE FirstNamed(_, _, _)
\* for rec in coll: if rec['name'] == name: return rec   (falls off the end: None)
FirstNamed(coll, name, k) ==
    IF k > Len(coll) THEN None
    ELSE IF coll[k].name = name THEN coll[k]
    ELSE FirstNamed(coll, name, k + 1)

profile_names(ps) == [k \in 1..Len(ps) |-> ps[k].name]

\* system_names keeping its list across calls: from the second call on, the
\* names come back appended to the names of the call before
system_names_kept(sys) ==
    [k \in 1..Len(sys) |-> sys[k].name]
    \o (IF nops > 1 THEN [k \in 1..Len(sys) |-> sys[k].name] ELSE <<>>)

\* system_names with the first record of the fetch skipped
system_names_skip(sys) == [k \in 1..(Len(sys) - 1) |-> sys[k + 1].name]

system_names(sys) == [k \in 1..Len(sys) |-> sys[k].name]

distro_names(ds) == [k \in 1..Len(ds) |-> ds[k].name]

\* get_system with the first record of the fetch skipped
get_system_skip(sys, hostname) == FirstNamed(sys, hostname, 2)

get_system(sys, hostname) == FirstNamed(sys, hostname, 1)

get_distro(ds, name) == FirstNamed(ds, name, 1)

get_profile(ps, name) == FirstNamed(ps, name, 1)

system_exists(sys, hostname) ==
    \E k \in 1..Len(system_names(sys)) : system_names(sys)[k] = hostname

profile_exists(ps, profile_name) ==
    \E k \in 1..Len(profile_names(ps)) : profile_names(ps)[k] = profile_name

RECURSIVE ScanProfiles(_, _, _, _)
\* the loop of get_default_profile_name from its k-th profile on; n counts the
\* get_distros() fetches made, one per profile examined
ScanProfiles(ps, ds, arch, k) ==
    IF k > Len(ps) THEN [exc |-> "", val |-> "no-profile", n |-> k - 1]
    ELSE LET d == get_distro(ds, ps[k].distro) IN
         IF d = None THEN [exc |-> "TypeError", val |-> None, n |-> k]
         ELSE IF d.arch = arch THEN [exc |-> "", val |-> ps[k].name, n |-> k]
         ELSE ScanProfiles(ps, ds, arch, k + 1)

\* get_default_profile_name with the scan started one profile too late
get_default_profile_name_skip(ps, ds, arch) == ScanProfiles(ps, ds, arch, 2)

get_default_profile_name(ps, ds, arch) == ScanProfiles(ps, ds, arch, 1)

----------------------------------------------------------------------------
(* Inputs *)

Ports0 == [p \in {} |-> ""]
Ports1 == [eth0 |-> "AA:BB:CC:DD:EE:FF"]
Ports2 == [eth0 |-> "AA:BB:CC:DD:EE:FF", eth1 |-> "11:22:33:44:55:66"]

FullDoc(hp, a) ==
    [server_name |-> "h1", arch |-> a, host_ports |-> hp,
     ipmi_fqdn |-> "bmc1", ipmi_user |-> "u", ipmi_pass |-> "p"]

Without(d, keys) == [k \in (DOMAIN d) \ keys |-> d[k]]

CompleteDocs == {FullDoc(hp, a) : hp \in {Ports0, Ports1, Ports2}, a \in {"x86_64", "riscv64"}}

MissingKeys == {{"arch"}, {"host_ports"}, {"arch", "host_ports"}, {"arch", "server_name"},
                {"server_name"}, {"ipmi_fqdn"}}

PartialDocs == {Without(FullDoc(hp, "x86_64"), m) : hp \in {Ports0, Ports1}, m \in MissingKeys}

\* the JSON text handed to add_system: an object, text that does not parse, or
\* text that parses to something that is not an object
Payloads ==
    {[kind |-> "object", doc |-> d] : d \in CompleteDocs \cup PartialDocs}
    \cup {[kind |-> "malformed", doc |-> Ports0], [kind |-> "array", doc |-> Ports0]}

ArgLists ==
    {<<>>, <<<<"ip", "dhcp">>>>, <<<<"ip", "dhcp">>, <<"console", "ttyS0">>>>,
     <<<<"console", "ttyS0">>, <<"ip", "dhcp">>>>, <<<<"ip", "dhcp">>, <<"ip", "dhcp">>>>}

ProfileArgs == {"p1", "p2", "ghost"}

Urls == {"ks=http://ks"}

TargetHosts == {"h1", "h2"}

LookupNames == HostNames \cup {"p1", "p2", "x86", "arm", "ghost"}

InitSystem(n) ==
    [BlankSystem EXCEPT !.name = n, !.hostname = n, !.profile = "p1",
                        !.power_address = "bmc0", !.power_mode = "ipmitool",
                        !.netboot_enabled = TRUE, !.kernel_options = " quiet=1"]

Profiles == <<[name |-> "p1", distro |-> "x86"], [name |-> "p2", distro |-> "arm"]>>

InitSystems ==
    {[k \in 1..Len(s) |-> InitSystem(s[k])] : s \in {t \in SeqsUpTo(HostNames, MaxSystems) :
        \A a, b \in 1..Len(t) : t[a] = t[b] => a = b}}

DistroCatalogs ==
    {Distros,
     <<[name |-> "arm", arch |-> "aarch64"], [name |-> "x86", arch |-> "x86_64"]>>,
     <<[name |-> "x86", arch |-> "x86_64"], [name |-> "x86b", arch |-> "x86_64"]>>,
     <<[name |-> "arm", arch |-> "aarch64"]>>}

\* profile collections with unique names whose distro exists in ds
ProfileCatalogs(ds) ==
    {ps \in SeqsUpTo([name : ProfileNames, distro : Range(distro_names(ds))], MaxProfiles) :
        DistinctNames(ps)}

----------------------------------------------------------------------------
(* The remote service, as far as the client's calls observe it *)

\* variant of a call record that leaves the session token out
Rpc_untokened(name, h, a, v, tok) == [rpc |-> name, h |-> h, arg |-> a, val |-> v, token |-> ""]

\* variant of a call record that commits through the profile interface
Rpc_save_profile(name, h, a, v, tok) ==
    [rpc |-> IF name = "save_system" THEN "save_profile" ELSE name,
     h |-> h, arg |-> a, val |-> v, token |-> tok]

Rpc(name, h, a, v, tok) == [rpc |-> name, h |-> h, arg |-> a, val |-> v, token |-> tok]

IndexOf(coll, name) == CHOOSE k \in 1..Len(coll) : coll[k].name = name

HasName(coll, name) == \E k \in 1..Len(coll) : coll[k].name = name

\* new_system(token): a fresh handle on a blank, uncommitted record
NewHandle(n) == [id |-> n + 1, rec |-> BlankSystem, target |-> ""]

\* get_system_handle(name, token): a handle on a copy of the committed record
OpenHandle(sys, name, n) == [id |-> n + 1, rec |-> get_system(sys, name), target |-> name]

\* modify_system(handle, field, value, token): stages the field on the handle
ModifySystem(h, field, v) == [h EXCEPT !.rec = [h.rec EXCEPT ![field] = v]]

\* save_system(handle, token): commits the staged record under its name
SaveSystem(sys, h) ==
    LET key == IF h.target # "" /\ HasName(sys, h.target) THEN h.target ELSE h.rec.name IN
    IF HasName(sys, key) THEN [sys EXCEPT ![IndexOf(sys, key)] = h.rec]
    ELSE Append(sys, h.rec)

\* remove_system(name, token)
RemoveSystem(sys, name) == SelectSeq(sys, LAMBDA r : r.name # name)

----------------------------------------------------------------------------
(* Local computations of the workflows *)

\* json.loads(system_def), line 123
json_loads(p) == IF p.kind = "malformed" THEN Raise("JSONDecodeError") ELSE Ok(p)

\* system_def[k]
Lookup(sd, k) ==
    IF sd.kind # "object" THEN Raise("TypeError")
    ELSE IF k \in DOMAIN sd.doc THEN Ok(sd.doc[k])
    ELSE Raise("KeyError")

\* k in system_def
Contains(sd, k) == sd.kind = "object" /\ k \in DOMAIN sd.doc

\* lines 126-130: "reject" when the schema check prints its warning and returns
\* None, "proceed" when the workflow goes on; the warning reads server_name
Validate(sd) ==
    IF ~(Contains(sd, "arch") /\ Contains(sd, "host_ports"))
    THEN IF Lookup(sd, "server_name").exc # "" THEN Raise(Lookup(sd, "server_name").exc)
         ELSE Ok("reject")
    ELSE Ok("proceed")

\* lines 136-141: items() yields (key, value) tuples and the loop body indexes
\* the tuple with the strings 'name' and 'mac', so its first iteration raises
Interfaces(hp) == IF DOMAIN hp = {} THEN Ok(NoIfaces) ELSE Raise("TypeError")

\* variant of the create workflow that commits without setting netboot_enabled
AddFields_short == <<"name", "hostname", "profile", "interfaces", "power_address",
                     "power_user", "power_pass", "power_mode">>

\* the nine fields of lines 132-149, in order
AddFields == <<"name", "hostname", "profile", "interfaces", "power_address",
               "power_user", "power_pass", "power_mode", "netboot_enabled">>

\* the value add_system computes for a field before it calls modify_system
AddValue(field, sd, ps, ds) ==
    CASE field \in {"name", "hostname"} -> Lookup(sd, "server_name")
      [] field = "profile" ->
            LET r == get_default_profile_name(ps, ds, sd.doc.arch) IN [exc |-> r.exc, val |-> r.val]
      [] field = "interfaces" -> Interfaces(sd.doc.host_ports)
      [] field = "power_address" -> Lookup(sd, "ipmi_fqdn")
      [] field = "power_user" -> Lookup(sd, "ipmi_user")
      [] field = "power_pass" -> Lookup(sd, "ipmi_pass")
      [] field = "power_mode" -> Ok("ipmitool")
      [] field = "netboot_enabled" -> Ok(TRUE)

\* the reads get_default_profile_name issues: get_profiles(), then one
\* get_distros() for each profile it examines
ProfileReads(ps, ds, arch) ==
    <<Rpc("get_profiles", 0, "", "", "")>>
    \o [k \in 1..get_default_profile_name(ps, ds, arch).n |-> Rpc("get_distros", 0, "", "", "")]

\* a handler that catches KeyError alone
add_system_catches_narrow(e) == e = "KeyError"

\* except Exception as e: every exception type of the model derives from Exception
add_system_catches(e) == e \in Exceptions

RECURSIVE BuildArgs(_, _, _)
\* lines 92-94
BuildArgs(args, k, acc) ==
    IF k > Len(args) THEN acc
    ELSE BuildArgs(args, k + 1, acc \o " " \o args[k][1] \o "=" \o args[k][2])

\* arg_str built like " ".join: no space before the first pair
arg_str_join(args) ==
    IF args = <<>> THEN "" ELSE BuildArgs(args, 2, args[1][1] \o "=" \o args[1][2])

arg_str(args) == BuildArgs(args, 1, "")

ModifyOps == {"set_system_profile", "set_system_args", "set_system_post_args"}

HandleOps == ModifyOps \cup {"restart_system"}

\* set_system_post_args writing the pre-install field
ModField_swapped(o) ==
    CASE o = "set_system_profile" -> "profile"
      [] o = "set_system_args" -> "kernel_options"
      [] o = "set_system_post_args" -> "kernel_options"

\* the one field each modify workflow writes
ModField(o) ==
    CASE o = "set_system_profile" -> "profile"
      [] o = "set_system_args" -> "kernel_options"
      [] o = "set_system_post_args" -> "kernel_options_post"

ModValue(o, a) == IF o = "set_system_args" THEN arg_str(a.value) ELSE a.value

ListOps == {"system_names", "profile_names", "distro_names"}

FindOps == {"get_system", "get_profile", "get_distro"}

ExistsOps == {"system_exists", "profile_exists"}

\* the get_* call a read method makes
FetchOf(o) ==
    CASE o \in {"system_names", "get_system", "system_exists"} -> "get_systems"
      [] o \in {"profile_names", "get_profile", "profile_exists"} -> "get_profiles"
      [] o \in {"distro_names", "get_distro"} -> "get_distros"

\* what a read method returns from the collections as fetched
ReadValue(o, n, sys, ps, ds) ==
    CASE o = "system_names" -> system_names(sys)
      [] o = "profile_names" -> profile_names(ps)
      [] o = "distro_names" -> distro_names(ds)
      [] o = "get_system" -> get_system(sys, n)
      [] o = "get_profile" -> get_profile(ps, n)
      [] o = "get_distro" -> get_distro(ds, n)
      [] o = "system_exists" -> system_exists(sys, n)
      [] o = "profile_exists" -> profile_exists(ps, n)

Returned(v) == <<[kind |-> "value", val |-> v]>>

ReturnedError(e) == <<[kind |-> "error", val |-> e]>>

Raised(e) == <<[kind |-> "raised", val |-> e]>>

----------------------------------------------------------------------------
(* Initial states: the client is constructed and no method is running *)

Idle ==
    /\ pc = "idle" /\ op = "" /\ arg = None /\ i = 0 /\ handle = <<>>
    /\ names = <<>> /\ value = None /\ exc = "" /\ result = <<>> /\ log = <<>>
    /\ before = <<>>
    /\ prev = <<>>

Init ==
    /\ systems \in InitSystems
    /\ profiles = Profiles
    /\ distros = Distros
    /\ token = "token"
    /\ nhandles = 0
    /\ nops = 0
    /\ Idle

InitResolve ==
    /\ systems = <<>>
    /\ distros \in DistroCatalogs
    /\ profiles \in ProfileCatalogs(distros)
    /\ token = "token"
    /\ nhandles = 0
    /\ nops = 0
    /\ Idle

----------------------------------------------------------------------------
(* Construction, lines 12-24 *)

\* session tokens the remote service hands out
Tokens == {"token", "token2"}

\* variant of construction that attempts the login again after a failure
AfterLoginFailure_retry == "new"

\* line 23 has no handler, and neither has new_action (lines 12-13): a failed
\* login leaves __init__ as a raised exception and no instance is returned
AfterLoginFailure == "aborted"

\* new_action(config) has been called and __init__ has not yet logged in
InitLogin ==
    /\ systems \in InitSystems
    /\ profiles = Profiles
    /\ distros = Distros
    /\ token = ""
    /\ nhandles = 0
    /\ nops = 0
    /\ pc = "new" /\ op = "" /\ arg = None /\ i = 0 /\ handle = <<>>
    /\ names = <<>> /\ value = None /\ exc = "" /\ result = <<>> /\ log = <<>>
    /\ before = <<>>
    /\ prev = <<>>

\* line 23: self.token = self.cobbler.login(self.user, self.password)
Login ==
    /\ pc = "new"
    /\ log' = Append(log, Rpc("login", 0, "", "", ""))
    /\ \E fail \in BOOLEAN :
         IF fail
         THEN token' = token /\ result' = Raised("Fault") /\ pc' = AfterLoginFailure
         ELSE /\ token' \in Tokens
              /\ result' = result
              /\ pc' = "idle"
    /\ UNCHANGED <<systems, profiles, distros, op, arg, i, handle, names, value, exc,
                   nhandles, nops, before, prev>>

----------------------------------------------------------------------------
(* Invocation and return of a method *)

Begin(o, a, p) ==
    /\ pc = "idle"
    /\ nops < MaxOps
    /\ nops' = nops + 1
    /\ op' = o /\ arg' = a /\ pc' = p
    /\ i' = 0 /\ handle' = <<>> /\ names' = <<>> /\ value' = None
    /\ exc' = "" /\ result' = <<>> /\ log' = <<>>
    /\ before' = systems
    /\ UNCHANGED <<systems, profiles, distros, token, nhandles, prev>>

Call_add_system(p) == Begin("add_system", [hostname |-> "", value |-> p], "add_loads")

Call_set_system_profile(hn, pn) ==
    Begin("set_system_profile", [hostname |-> hn, value |-> pn], "get_handle")

Call_set_system_args(hn, args) ==
    Begin("set_system_args", [hostname |-> hn, value |-> args], "get_handle")

Call_set_system_post_args(hn, url) ==
    Begin("set_system_post_args", [hostname |-> hn, value |-> url], "get_handle")

Call_restart_system(hn) ==
    Begin("restart_system", [hostname |-> hn, value |-> ""], "get_handle")

Call_purge_systems == Begin("purge_systems", [hostname |-> "", value |-> ""], "purge_list")

Call_sync == Begin("sync", [hostname |-> "", value |-> ""], "sync")

Call_get_default_profile_name(a) ==
    Begin("get_default_profile_name", [hostname |-> "", value |-> a], "resolve")

Call_list(o) == Begin(o, [hostname |-> "", value |-> ""], "read")

Call_find(o, n) == Begin(o, [hostname |-> "", value |-> n], "read")

Call_exists(o, n) == Begin(o, [hostname |-> "", value |-> n], "read")

\* the caller takes the result; the method's locals are gone
Return ==
    /\ pc = "ret"
    /\ pc' = "idle" /\ op' = "" /\ arg' = None /\ i' = 0 /\ handle' = <<>>
    /\ names' = <<>> /\ value' = None /\ exc' = "" /\ result' = <<>> /\ log' = <<>>
    /\ before' = <<>>
    /\ prev' = IF op \in ListOps /\ result[1].kind = "value"
               THEN <<[op |-> op, val |-> result[1].val]>> ELSE <<>>
    /\ UNCHANGED <<systems, profiles, distros, token, nhandles, nops>>

----------------------------------------------------------------------------
(* add_system, lines 121-154 *)

\* line 123
AddLoads ==
    /\ pc = "add_loads"
    /\ LET r == json_loads(arg.value) IN
         IF r.exc # ""
         THEN exc' = r.exc /\ pc' = "add_except" /\ value' = value
         ELSE exc' = exc /\ pc' = "add_new_system" /\ value' = r.val
    /\ UNCHANGED <<systems, profiles, distros, token, op, arg, i, handle, names,
                   result, log, nhandles, nops, before, prev>>

\* line 124
AddNewSystem ==
    /\ pc = "add_new_system"
    /\ log' = Append(log, Rpc("new_system", 0, "", "", token))
    /\ \E fail \in BOOLEAN :
         IF fail
         THEN exc' = "Fault" /\ pc' = "add_except" /\ UNCHANGED <<handle, nhandles>>
         ELSE /\ handle' = <<NewHandle(nhandles)>>
              /\ nhandles' = nhandles + 1
              /\ exc' = exc /\ pc' = "add_validate"
    /\ UNCHANGED <<systems, profiles, distros, token, op, arg, i, names, value,
                   result, nops, before, prev>>

\* the schema check falling through to the commit instead of returning
AfterValidate_commits(sd) ==
    LET r == Validate(sd) IN
    IF r.exc # "" THEN "add_except"
    ELSE IF r.val = "reject" THEN "add_save"
    ELSE "add_modify"

\* the step that follows the schema check of lines 126-128
AfterValidate(sd) ==
    LET r == Validate(sd) IN
    IF r.exc # "" THEN "add_except"
    ELSE IF r.val = "reject" THEN "ret"
    ELSE "add_modify"

\* lines 126-130
AddValidate ==
    /\ pc = "add_validate"
    /\ pc' = AfterValidate(value)
    /\ exc' = Validate(value).exc
    /\ result' = IF pc' = "ret" THEN Returned("None") ELSE result
    /\ i' = 1
    /\ UNCHANGED <<systems, profiles, distros, token, op, arg, handle, names, value,
                   log, nhandles, nops, before, prev>>

\* lines 132-149: compute the value of field i, then modify_system
AddModify ==
    /\ pc = "add_modify"
    /\ LET field == AddFields[i]
           r == AddValue(field, value, profiles, distros)
           reads == IF field = "profile"
                    THEN ProfileReads(profiles, distros, value.doc.arch) ELSE <<>>
           h == handle[1]
       IN  \/ /\ r.exc # ""
              /\ log' = log \o reads
              /\ exc' = r.exc /\ pc' = "add_except"
              /\ UNCHANGED <<handle, i>>
           \/ /\ \E f \in 1..Len(reads) : log' = log \o SubSeq(reads, 1, f)
              /\ exc' = "Fault" /\ pc' = "add_except"
              /\ UNCHANGED <<handle, i>>
           \/ /\ r.exc = ""
              /\ log' = log \o reads \o <<Rpc("modify_system", h.id, field, r.val, token)>>
              /\ \E fail \in BOOLEAN :
                   IF fail
                   THEN exc' = "Fault" /\ pc' = "add_except" /\ UNCHANGED <<handle, i>>
                   ELSE /\ handle' = <<ModifySystem(h, field, r.val)>>
                        /\ exc' = exc
                        /\ IF i = Len(AddFields)
                           THEN pc' = "add_save" /\ i' = i
                           ELSE pc' = pc /\ i' = i + 1
    /\ UNCHANGED <<systems, profiles, distros, token, op, arg, names, value, result,
                   nhandles, nops, before, prev>>

\* lines 151-152
AddSave ==
    /\ pc = "add_save"
    /\ log' = Append(log, Rpc("save_system", handle[1].id, "", "", token))
    /\ \E fail \in BOOLEAN :
         IF fail
         THEN exc' = "Fault" /\ pc' = "add_except" /\ UNCHANGED <<systems, result>>
         ELSE /\ systems' = SaveSystem(systems, handle[1])
              /\ result' = Returned("None")
              /\ exc' = exc /\ pc' = "ret"
    /\ UNCHANGED <<profiles, distros, token, op, arg, i, handle, names, value,
                   nhandles, nops, before, prev>>

\* lines 153-154
AddExcept ==
    /\ pc = "add_except"
    /\ result' = IF add_system_catches(exc) THEN ReturnedError(exc) ELSE Raised(exc)
    /\ pc' = "ret"
    /\ UNCHANGED <<systems, profiles, distros, token, op, arg, i, handle, names, value,
                   exc, log, nhandles, nops, before, prev>>

----------------------------------------------------------------------------
(* set_system_profile, set_system_args, set_system_post_args, restart_system:
   lines 84-112. None of them has an exception handler: a failing call
   leaves the method as a raised exception. *)

\* lines 85, 97, 106, 111: get_system_handle(hostname); the remote service
\* refuses a name it does not know
GetHandle ==
    /\ pc = "get_handle"
    /\ op \in HandleOps
    /\ log' = Append(log, Rpc("get_system_handle", 0, arg.hostname, "", token))
    /\ \E fail \in BOOLEAN :
         IF fail \/ ~system_exists(systems, arg.hostname)
         THEN result' = Raised("Fault") /\ pc' = "ret" /\ UNCHANGED <<handle, nhandles>>
         ELSE /\ handle' = <<OpenHandle(systems, arg.hostname, nhandles)>>
              /\ nhandles' = nhandles + 1
              /\ result' = result
              /\ pc' = IF op = "restart_system" THEN "power" ELSE "modify"
    /\ UNCHANGED <<systems, profiles, distros, token, op, arg, i, names, value, exc, nops, before, prev>>

\* lines 87, 100, 107
Modify ==
    /\ pc = "modify"
    /\ op \in ModifyOps
    /\ LET h == handle[1]
           v == ModValue(op, arg)
       IN  /\ log' = Append(log, Rpc("modify_system", h.id, ModField(op), v, token))
           /\ \E fail \in BOOLEAN :
                IF fail
                THEN result' = Raised("Fault") /\ pc' = "ret" /\ UNCHANGED handle
                ELSE /\ handle' = <<ModifySystem(h, ModField(op), v)>>
                     /\ result' = result /\ pc' = "save"
    /\ UNCHANGED <<systems, profiles, distros, token, op, arg, i, names, value, exc,
                   nhandles, nops, before, prev>>

\* lines 88, 102, 108
Save ==
    /\ pc = "save"
    /\ op \in ModifyOps
    /\ log' = Append(log, Rpc("save_system", handle[1].id, "", "", token))
    /\ \E fail \in BOOLEAN :
         IF fail
         THEN result' = Raised("Fault") /\ UNCHANGED systems
         ELSE systems' = SaveSystem(systems, handle[1]) /\ result' = Returned("None")
    /\ pc' = "ret"
    /\ UNCHANGED <<profiles, distros, token, op, arg, i, handle, names, value, exc,
                   nhandles, nops, before, prev>>

\* line 112: power_system(handle, token=self.token, power='reboot'). A method of
\* xmlrpc.client.ServerProxy takes positional arguments only, so the keyword
\* arguments raise TypeError locally before any request is sent.
Power ==
    /\ pc = "power"
    /\ op = "restart_system"
    /\ result' = Raised("TypeError")
    /\ pc' = "ret"
    /\ UNCHANGED <<systems, profiles, distros, token, op, arg, i, handle, names, value,
                   exc, log, nhandles, nops, before, prev>>

----------------------------------------------------------------------------
(* sync, lines 115-116 *)

Sync ==
    /\ pc = "sync"
    /\ log' = Append(log, Rpc("sync", 0, "", "", token))
    /\ \E fail \in BOOLEAN :
         result' = IF fail THEN Raised("Fault") ELSE Returned("None")
    /\ pc' = "ret"
    /\ UNCHANGED <<systems, profiles, distros, token, op, arg, i, handle, names, value,
                   exc, nhandles, nops, before, prev>>

----------------------------------------------------------------------------
(* purge_systems, lines 39-41 *)

\* line 40: self.system_names(), one get_systems() fetch
PurgeList ==
    /\ pc = "purge_list"
    /\ log' = Append(log, Rpc("get_systems", 0, "", "", ""))
    /\ \E fail \in BOOLEAN :
         IF fail
         THEN result' = Raised("Fault") /\ pc' = "ret" /\ UNCHANGED <<names, i>>
         ELSE /\ names' = system_names(systems)
              /\ i' = 1
              /\ result' = result /\ pc' = "purge_loop"
    /\ UNCHANGED <<systems, profiles, distros, token, op, arg, handle, value, exc,
                   nhandles, nops, before, prev>>

\* variant of line 41 that issues a failed remove_system again
PurgeRemove_retries ==
    /\ pc = "purge_loop"
    /\ i <= Len(names)
    /\ log' = Append(log, Rpc("remove_system", 0, names[i], "", token))
    /\ \E fail \in BOOLEAN :
         IF fail
         THEN result' = result /\ pc' = pc /\ UNCHANGED <<systems, i>>
         ELSE /\ systems' = RemoveSystem(systems, names[i])
              /\ i' = i + 1
              /\ result' = result /\ pc' = pc
    /\ UNCHANGED <<profiles, distros, token, op, arg, handle, names, value, exc,
                   nhandles, nops, before, prev>>

\* line 41, one iteration
PurgeRemove ==
    /\ pc = "purge_loop"
    /\ i <= Len(names)
    /\ log' = Append(log, Rpc("remove_system", 0, names[i], "", token))
    /\ \E fail \in BOOLEAN :
         IF fail
         THEN result' = Raised("Fault") /\ pc' = "ret" /\ UNCHANGED <<systems, i>>
         ELSE /\ systems' = RemoveSystem(systems, names[i])
              /\ i' = i + 1
              /\ result' = result /\ pc' = pc
    /\ UNCHANGED <<profiles, distros, token, op, arg, handle, names, value, exc,
                   nhandles, nops, before, prev>>

\* the loop is exhausted: the method returns None
PurgeDone ==
    /\ pc = "purge_loop"
    /\ i > Len(names)
    /\ result' = Returned("None")
    /\ pc' = "ret"
    /\ UNCHANGED <<systems, profiles, distros, token, op, arg, i, handle, names, value,
                   exc, log, nhandles, nops, before, prev>>

----------------------------------------------------------------------------
(* get_default_profile_name called on its own, lines 44-48 *)

Resolve ==
    /\ pc = "resolve"
    /\ LET r == get_default_profile_name(profiles, distros, arg.value)
           reads == ProfileReads(profiles, distros, arg.value)
       IN  \/ /\ log' = log \o reads
              /\ result' = IF r.exc # "" THEN Raised(r.exc) ELSE Returned(r.val)
           \/ /\ \E f \in 1..Len(reads) : log' = log \o SubSeq(reads, 1, f)
              /\ result' = Raised("Fault")
    /\ pc' = "ret"
    /\ UNCHANGED <<systems, profiles, distros, token, op, arg, i, handle, names, value,
                   exc, nhandles, nops, before, prev>>

----------------------------------------------------------------------------
(* The read methods, lines 27-36 and 51-75: one fetch, then a local scan *)

Read ==
    /\ pc = "read"
    /\ log' = Append(log, Rpc(FetchOf(op), 0, "", "", ""))
    /\ \E fail \in BOOLEAN :
         result' = IF fail THEN Raised("Fault")
                   ELSE Returned(ReadValue(op, arg.value, systems, profiles, distros))
    /\ pc' = "ret"
    /\ UNCHANGED <<systems, profiles, distros, token, op, arg, i, handle, names, value,
                   exc, nhandles, nops, before, prev>>

----------------------------------------------------------------------------
(* Another client of the remote service, writing while purge_systems runs *)

\* a System record committed by the other client
ExtSystem(n) == [InitSystem(n) EXCEPT !.power_address = "ext"]

\* the other client commits a System under a name the catalog does not hold
ExternalAdd(n) ==
    /\ op = "purge_systems"
    /\ pc \in {"purge_list", "purge_loop"}
    /\ ~HasName(systems, n)
    /\ systems' = Append(systems, ExtSystem(n))
    /\ UNCHANGED <<profiles, distros, token, pc, op, arg, i, handle, names, value, exc,
                   result, log, nhandles, nops, before, prev>>

----------------------------------------------------------------------------
(* Specifications *)

Next ==
    \/ \E p \in Payloads : Call_add_system(p)
    \/ \E hn \in TargetHosts, pn \in ProfileArgs : Call_set_system_profile(hn, pn)
    \/ \E hn \in TargetHosts, args \in ArgLists : Call_set_system_args(hn, args)
    \/ \E hn \in TargetHosts, url \in Urls : Call_set_system_post_args(hn, url)
    \/ \E hn \in TargetHosts : Call_restart_system(hn)
    \/ Call_purge_systems
    \/ Call_sync
    \/ AddLoads
    \/ AddNewSystem
    \/ AddValidate
    \/ AddModify
    \/ AddSave
    \/ AddExcept
    \/ GetHandle
    \/ Modify
    \/ Save
    \/ Power
    \/ Sync
    \/ PurgeList
    \/ PurgeRemove
    \/ PurgeDone
    \/ Return

Spec == Init /\ [][Next]_vars

NextResolve ==
    \/ \E a \in RequestArchs : Call_get_default_profile_name(a)
    \/ Resolve
    \/ Return

SpecResolve == InitResolve /\ [][NextResolve]_vars

\* the read methods, with purge_systems as the mutation between reads
NextRead ==
    \/ \E o \in ListOps : Call_list(o)
    \/ \E o \in FindOps, n \in LookupNames : Call_find(o, n)
    \/ \E o \in ExistsOps, n \in LookupNames : Call_exists(o, n)
    \/ Call_purge_systems
    \/ Read
    \/ PurgeList
    \/ PurgeRemove
    \/ PurgeDone
    \/ Return

SpecRead == Init /\ [][NextRead]_vars

\* every operation of the client, reads and workflows
NextAll ==
    \/ Next
    \/ NextRead

SpecAll == Init /\ [][NextAll]_vars

\* the client from its construction on
NextLogin ==
    \/ Login
    \/ Next

SpecLogin == InitLogin /\ [][NextLogin]_vars

\* purge_systems against a catalog another client writes to
NextExt ==
    \/ Call_purge_systems
    \/ PurgeList
    \/ PurgeRemove
    \/ PurgeDone
    \/ Return
    \/ \E n \in HostNames : ExternalAdd(n)

SpecExt == Init /\ [][NextExt]_vars

----------------------------------------------------------------------------
(* Properties *)

\* the payload is a JSON object without `arch` or without `host_ports`
LacksRequired(p) ==
    p.kind = "object" /\ ~("arch" \in DOMAIN p.doc /\ "host_ports" \in DOMAIN p.doc)

\* the payload is a JSON object with all six fields
IsComplete(p) ==
    p.kind = "object"
    /\ DOMAIN p.doc = {"server_name", "arch", "host_ports", "ipmi_fqdn", "ipmi_user", "ipmi_pass"}

Calls(name) == SelectSeq(log, LAMBDA c : c.rpc = name)

ModifyCalls(field) == SelectSeq(log, LAMBDA c : c.rpc = "modify_system" /\ c.arg = field)

\* C1: while add_system runs on a definition that lacks `arch` or `host_ports`,
\* it has issued no RPC at all.
C1_RejectionIssuesNoRpc ==
    (op = "add_system" /\ LacksRequired(arg.value)) => log = <<>>

\* C2: when add_system returns for a complete definition with a non-empty
\* host_ports and no RPC has failed, it returns None and the catalog holds a
\* record with name = server_name, profile = the default profile of arch,
\* power_address = ipmi_fqdn and netboot_enabled = TRUE.
C2_CreateSucceeds ==
    (/\ op = "add_system" /\ pc = "ret"
     /\ IsComplete(arg.value)
     /\ DOMAIN arg.value.doc.host_ports # {}
     /\ exc # "Fault")
    => /\ result = Returned("None")
       /\ \E k \in 1..Len(systems) :
            /\ systems[k].name = arg.value.doc.server_name
            /\ systems[k].profile =
                   get_default_profile_name(profiles, distros, arg.value.doc.arch).val
            /\ systems[k].power_address = arg.value.doc.ipmi_fqdn
            /\ systems[k].netboot_enabled = TRUE

\* C3: when add_system returns for a complete definition and no RPC has failed,
\* it has sent exactly one `interfaces` value, with one entry per key of
\* host_ports, each entry {mac_address: the MAC host_ports gives that port}.
C3_InterfacesTranslated ==
    (/\ op = "add_system" /\ pc = "ret"
     /\ IsComplete(arg.value)
     /\ exc # "Fault")
    => /\ Len(ModifyCalls("interfaces")) = 1
       /\ ModifyCalls("interfaces")[1].val =
              [p \in DOMAIN arg.value.doc.host_ports |->
                  [mac_address |-> arg.value.doc.host_ports[p]]]

\* C4: add_system never hands an exception to its caller: once a step has
\* raised, the next step returns that exception as a value, and no further RPC
\* is issued and no handle is touched in between; a return of add_system is
\* never a raise.
C4_AddSystemNeverRaises ==
    [][/\ (op = "add_system" /\ exc # "" /\ pc # "ret")
          => /\ pc' = "ret"
             /\ result' = ReturnedError(exc)
             /\ log' = log /\ handle' = handle /\ systems' = systems
       /\ (op' = "add_system" /\ pc' = "ret")
          => /\ result'[1].kind \in {"value", "error"}
             /\ (exc' # "" => result' = ReturnedError(exc'))]_vars

\* an RPC failed in the middle of the create workflow and came back as a value
C4_Witness ==
    /\ op = "add_system" /\ pc = "ret"
    /\ exc = "Fault" /\ result = ReturnedError("Fault")
    /\ Len(Calls("modify_system")) >= 2

\* C5: no workflow operation ends by raising to its caller.
C5_NoWorkflowRaises ==
    pc = "ret" => result[1].kind # "raised"

\* C6: when add_system returns for a definition that lacks `arch` or
\* `host_ports`, it returns an error, not the None of a successful create.
C6_RejectionReturnsError ==
    (op = "add_system" /\ pc = "ret" /\ LacksRequired(arg.value))
    => (result[1].kind = "error" /\ result # Returned("None"))

\* C7: while and after add_system runs on a definition that lacks `arch` or
\* `host_ports`, the committed System records are those of the invocation.
C7_RejectionKeepsCatalog ==
    (op = "add_system" /\ LacksRequired(arg.value)) => systems = before

\* a rejected definition has returned, after new_system, over a non-empty catalog
C7_Witness ==
    /\ op = "add_system" /\ pc = "ret"
    /\ LacksRequired(arg.value)
    /\ result = Returned("None")
    /\ Len(Calls("new_system")) = 1
    /\ systems # <<>>

\* the profiles whose distro has architecture a, by position
Matching(a) ==
    {k \in 1..Len(profiles) :
        \E j \in 1..Len(distros) :
            distros[j].name = profiles[k].distro /\ distros[j].arch = a}

\* C8: unless a read fails, get_default_profile_name(arch) returns the name of
\* the first profile whose distro has that arch, and returns "no-profile",
\* without raising, exactly when no profile's distro has it.
C8_DefaultProfile ==
    (op = "get_default_profile_name" /\ pc = "ret" /\ result # Raised("Fault"))
    => /\ result[1].kind = "value"
       /\ (result[1].val = "no-profile") <=> (Matching(arg.value) = {})
       /\ Matching(arg.value) # {}
          => \E k \in Matching(arg.value) :
                /\ \A j \in Matching(arg.value) : k <= j
                /\ result[1].val = profiles[k].name

\* two profiles match and the first one's name came back
C8_Witness ==
    /\ op = "get_default_profile_name" /\ pc = "ret"
    /\ Cardinality(Matching(arg.value)) >= 2
    /\ result = Returned(profiles[1].name)

\* C9: every committed System record's profile names a Profile of the catalog.
C9_ProfileReferenceExists ==
    \A k \in 1..Len(systems) : profile_exists(profiles, systems[k].profile)

\* C10: when purge_systems returns None, it fetched the list once, issued one
\* remove_system per system of the catalog it was invoked on, in list order and
\* no other, and the catalog is empty.
C10_PurgeRemovesAll ==
    (op = "purge_systems" /\ pc = "ret" /\ result = Returned("None"))
    => /\ Len(Calls("get_systems")) = 1
       /\ Len(Calls("remove_system")) = Len(before)
       /\ \A k \in 1..Len(before) : Calls("remove_system")[k].arg = before[k].name
       /\ systems = <<>>

\* a purge of two systems has returned
C10_Witness ==
    /\ op = "purge_systems" /\ pc = "ret"
    /\ result = Returned("None")
    /\ Len(before) >= 2

\* the field a modify workflow is to write
IntendedField(o) ==
    CASE o = "set_system_profile" -> "profile"
      [] o = "set_system_args" -> "kernel_options"
      [] OTHER -> "kernel_options_post"

\* C11: a modify workflow that returns None has issued get_system_handle for
\* its hostname, one modify_system of its one field and one save_system, all
\* on that handle, and nothing else; the catalog differs from the catalog of
\* the invocation in that field of that system alone.
C11_ModifyWritesOneField ==
    (op \in ModifyOps /\ pc = "ret" /\ result = Returned("None"))
    => /\ Len(log) = 3
       /\ log[1].rpc = "get_system_handle" /\ log[1].arg = arg.hostname
       /\ log[2].rpc = "modify_system" /\ log[2].arg = IntendedField(op)
       /\ log[3].rpc = "save_system"
       /\ log[2].h = handle[1].id /\ log[3].h = handle[1].id
       /\ Len(systems) = Len(before)
       /\ \A k \in 1..Len(before) :
            IF before[k].name = arg.hostname
            THEN /\ systems[k][IntendedField(op)] = log[2].val
                 /\ \A g \in (DOMAIN BlankSystem) \ {IntendedField(op)} :
                        systems[k][g] = before[k][g]
            ELSE systems[k] = before[k]

\* set_system_post_args has returned over a catalog of two systems
C11_Witness ==
    /\ op = "set_system_post_args" /\ pc = "ret"
    /\ result = Returned("None")
    /\ Len(before) = 2
    /\ get_system(systems, arg.hostname).kernel_options_post = arg.value

RECURSIVE Segments(_)
\* one " name=value" segment per pair, first pair first
Segments(args) ==
    IF args = <<>> THEN ""
    ELSE (" " \o Head(args)[1] \o "=" \o Head(args)[2]) \o Segments(Tail(args))

\* C12: set_system_args that returns None has written to kernel_options the
\* segments " name=value" of its pairs in input order, duplicates kept: the
\* empty string for no pair, " ip=dhcp console=ttyS0" for the two pairs
\* (ip, dhcp), (console, ttyS0).
C12_BootArgsString ==
    (op = "set_system_args" /\ pc = "ret" /\ result = Returned("None"))
    => /\ get_system(systems, arg.hostname).kernel_options = Segments(arg.value)
       /\ arg.value = <<>> => get_system(systems, arg.hostname).kernel_options = ""
       /\ arg.value = <<<<"ip", "dhcp">>, <<"console", "ttyS0">>>>
          => get_system(systems, arg.hostname).kernel_options = " ip=dhcp console=ttyS0"
       /\ arg.value = <<<<"ip", "dhcp">>, <<"ip", "dhcp">>>>
          => get_system(systems, arg.hostname).kernel_options = " ip=dhcp ip=dhcp"

\* the two pairs of the example have been written
C12_Witness ==
    /\ op = "set_system_args" /\ pc = "ret"
    /\ result = Returned("None")
    /\ arg.value = <<<<"ip", "dhcp">>, <<"console", "ttyS0">>>>
    /\ get_system(systems, arg.hostname).kernel_options = " ip=dhcp console=ttyS0"

\* the collection a read method fetches
Fetched(o) ==
    CASE FetchOf(o) = "get_systems" -> systems
      [] FetchOf(o) = "get_profiles" -> profiles
      [] FetchOf(o) = "get_distros" -> distros

\* C13: unless its fetch fails, a find method returns the first record of its
\* collection whose name is the argument, or None when there is none, and
\* never raises; an exists method returns whether the name is in the name list.
C13_LookupsReturnAbsent ==
    (op \in FindOps \cup ExistsOps /\ pc = "ret"
     /\ ~(result[1].kind = "raised" /\ result[1].val = "Fault"))
    => LET coll == Fetched(op)
           hits == {k \in 1..Len(coll) : coll[k].name = arg.value}
       IN  /\ result[1].kind = "value"
           /\ op \in FindOps /\ hits = {} => result[1].val = None
           /\ op \in FindOps /\ hits # {}
              => \E k \in hits : (\A j \in hits : k <= j) /\ result[1].val = coll[k]
           /\ op \in ExistsOps
              => result[1].val = (arg.value \in {coll[k].name : k \in 1..Len(coll)})

\* a find on a non-empty system collection returned None for a missing name
C13_Witness ==
    /\ op = "get_system" /\ pc = "ret"
    /\ Len(systems) = 2
    /\ ~system_exists(systems, arg.value)
    /\ result = Returned(None)

\* C19: a list read leaves the committed records as they were when it was
\* invoked, and when the method that returned just before it was the same list
\* read, it returns the same names in the same order.
C19_ReadsRepeat ==
    (op \in ListOps /\ pc = "ret")
    => /\ systems = before
       /\ (result[1].kind = "value" /\ prev # <<>> /\ prev[1].op = op)
          => result[1].val = prev[1].val

\* system_names returned twice in a row over a catalog of two systems
C19_Witness ==
    /\ op = "system_names" /\ pc = "ret"
    /\ result[1].kind = "value"
    /\ prev # <<>> /\ prev[1].op = "system_names"
    /\ result[1].val = prev[1].val
    /\ Len(systems) = 2

\* C14: with another client adding systems during the purge, a purge_systems
\* that returns None has fetched the list once and removed exactly the names
\* of that list, so every system still in the catalog is one the other client
\* added; such a system can remain (C14_Witness).
C14_PurgeRemovesFetchedOnly ==
    (op = "purge_systems" /\ pc = "ret" /\ result = Returned("None"))
    => /\ Len(Calls("get_systems")) = 1
       /\ Len(Calls("remove_system")) = Len(names)
       /\ \A k \in 1..Len(names) : Calls("remove_system")[k].arg = names[k]
       /\ \A k \in 1..Len(systems) : systems[k].power_address = "ext"

\* purge_systems returned None and the catalog holds a system whose name was
\* not in the fetched list
C14_Witness ==
    /\ op = "purge_systems" /\ pc = "ret"
    /\ result = Returned("None")
    /\ names # <<>>
    /\ \E k \in 1..Len(systems) :
         /\ systems[k] = ExtSystem(systems[k].name)
         /\ \A j \in 1..Len(names) : systems[k].name # names[j]

\* C15: the remove_system calls of one purge_systems are the names observed at
\* its start, in order and each at most once; when the k-th of them fails the
\* method raises, the k-1 systems removed before it stay removed, and the
\* failed system and those after it are still in the catalog.
C15_PurgeStopsAtFailure ==
    op = "purge_systems" =>
      LET rm == Calls("remove_system")
          observed == system_names(before)
      IN /\ Len(rm) <= Len(observed)
         /\ \A k \in 1..Len(rm) : rm[k].arg = observed[k]
         /\ \A j, k \in 1..Len(rm) : j # k => rm[j].arg # rm[k].arg
         /\ (pc = "ret" /\ result[1].kind = "raised" /\ Len(rm) >= 1)
              => systems = SubSeq(before, Len(rm), Len(before))

\* the second remove_system of a purge failed after the first one succeeded
C15_Witness ==
    /\ op = "purge_systems" /\ pc = "ret"
    /\ result[1].kind = "raised"
    /\ Len(Calls("remove_system")) = 2
    /\ Len(systems) = Len(before) - 1
    /\ ~HasName(systems, before[1].name)

\* the RPCs of the remote service that change its state or act on a host
MutatingRpcs ==
    {"new_system", "get_system_handle", "modify_system", "save_system",
     "remove_system", "power_system", "sync"}

\* C16: once construction has stored the token that login returned, no step of
\* the client assigns it again, and every mutating RPC an operation issues
\* carries that token.
C16_TokenStable ==
    /\ [](\A k \in 1..Len(log) :
            log[k].rpc \in MutatingRpcs => (token \in Tokens /\ log[k].token = token))
    /\ [][pc # "new" => token' = token]_vars

\* a create workflow has committed under the second token of the service
C16_Witness ==
    /\ token = "token2"
    /\ op = "add_system"
    /\ Len(Calls("save_system")) = 1
    /\ Calls("save_system")[1].token = "token2"

\* C17: a failed login is the only call of that construction: it is not
\* attempted again, no token is stored, no operation is ever invoked and no
\* other RPC is issued, and the construction stays aborted.
C17_LoginFailureFatal ==
    /\ [](token = "" =>
            /\ nops = 0 /\ op = "" /\ nhandles = 0
            /\ Len(log) <= 1
            /\ \A k \in 1..Len(log) : log[k].rpc = "login")
    /\ [](pc = "aborted" => (token = "" /\ log = <<Rpc("login", 0, "", "", "")>>
                             /\ result = Raised("Fault")))
    /\ [][pc = "aborted" => pc' = "aborted"]_vars
    /\ [][pc = "new" /\ token' = "" => pc' = "aborted"]_vars

\* the login of a construction has failed
C17_Witness ==
    /\ pc = "aborted"
    /\ Len(Calls("login")) = 1
    /\ token = ""

\* the RPCs that only fetch a collection
FetchRpcs == {"get_systems", "get_profiles", "get_distros"}

\* C18: no step of any client operation changes the profile collection or the
\* distro collection, and every RPC the client issues is either a fetch or one
\* of the System RPCs (sync included); only System records change.
C18_ProfilesDistrosUntouched ==
    /\ [][profiles' = profiles /\ distros' = distros]_vars
    /\ [](\A k \in 1..Len(log) : log[k].rpc \in FetchRpcs \cup MutatingRpcs)

\* a modify workflow has committed a changed System record
C18_Witness ==
    /\ op \in ModifyOps /\ pc = "ret"
    /\ result = Returned("None")
    /\ systems # before
    /\ Len(Calls("save_system")) = 1
    /\ profiles = Profiles /\ distros = Distros

\* the fields a committed create must have set, in the order of the workflow
NineFields ==
    <<"name", "hostname", "profile", "interfaces", "power_address",
      "power_user", "power_pass", "power_mode", "netboot_enabled">>

\* C20: one add_system issues new_system and save_system at most once each; a
\* save_system is its last call, is on the handle its new_system returned, and
\* comes after nine modify_system calls on that handle, one per field in
\* order, all of which took effect; the catalog changes only by that commit.
C20_CommitLast ==
    op = "add_system" =>
      LET sv == Calls("save_system")
          md == Calls("modify_system")
          nw == Calls("new_system")
      IN /\ Len(sv) <= 1 /\ Len(nw) <= 1
         /\ Len(md) <= Len(NineFields)
         /\ \A k \in 1..Len(md) : md[k].arg = NineFields[k]
         /\ Len(sv) = 1 =>
              /\ log[Len(log)] = sv[1]
              /\ Len(nw) = 1 /\ log[1] = nw[1]
              /\ handle # <<>> /\ handle[1].id = nhandles /\ sv[1].h = handle[1].id
              /\ Len(md) = Len(NineFields)
              /\ \A k \in 1..Len(md) :
                   /\ md[k].h = sv[1].h
                   /\ handle[1].rec[NineFields[k]] = md[k].val
         /\ systems # before =>
              /\ Len(sv) = 1
              /\ systems = SaveSystem(before, handle[1])

\* an add_system has committed its record and returned None
C20_Witness ==
    /\ op = "add_system" /\ pc = "ret"
    /\ result = Returned("None")
    /\ Len(Calls("save_system")) = 1
    /\ Len(Calls("modify_system")) = 9
    /\ systems # before

====
